---- MODULE Spec2Model ----
(***************************************************************************)
(* A model of train.py: the driver main() with its hyperparameter grid,    *)
(* the model selector log_metrics(), and the evaluation pass test() with   *)
(* get_metrics(), get_recall() and get_ndcg().                             *)
(*                                                                         *)
(* Two state machines share the module.  Spec is main(): grid, epochs,     *)
(* training steps, evaluation outcome, selector, files.  SpecEval and      *)
(* SpecRank are test(): one evaluation pass over a dataloader.             *)
(*                                                                         *)
(* Real numbers: a metric value handled by the selector is an ordered      *)
(* level 0..MaxLevel; a value computed by the evaluation pass is a         *)
(* fixed-point integer with unit One (1.0).                                 *)
(***************************************************************************)
EXTENDS Integers, Sequences, FiniteSets, TLC

VARIABLES
    \* ---- main()
    pc,            \* position in main(): start, config, train, log, done, error
    conf,          \* the configuration dict after lines 42-73 (with paras)
    cfg,           \* index of the grid tuple being run (product order)
    epoch,         \* epoch of the loop at line 147
    batch_i,       \* training batches done in this epoch (loop at line 152)
    steps,         \* optimizer.step() calls executed since process start
    metrics,       \* the candidate snapshot of the last evaluation (lines 177-179)
    lists,         \* user/bundle/score lists of the last test-split pass
    best_metrics,  \* the best snapshot
    best_perform,  \* the best-perform summaries
    best_epoch,    \* the best epoch
    artifacts,     \* checkpoint and export files: path -> content
    logs,          \* text logs: path -> number of lines appended
    writers,       \* path -> the grid indices that wrote it
    nWrites,       \* number of writes so far, per kind of artifact
    error,         \* the exception that ended the process, or "none"
    \* ---- test()
    dataloader,    \* the batches of the pass
    tie,           \* how this build's torch.topk orders equal scores
    pos,           \* number of batches iterated so far (loop at line 302)
    tmp_metrics,   \* the accumulator: metric -> K -> <<numerator, denominator>>
    user_list,     \* users collected so far
    bundle_list,   \* top-ExportTopK columns collected so far, one entry per user
    score_list,    \* their scores
    result,        \* the metrics returned by test(), or NoResult
    epc            \* position in test(): loop, done, error

mainVars == <<pc, conf, cfg, epoch, batch_i, steps, metrics, lists, best_metrics,
              best_perform, best_epoch, artifacts, logs, writers, nWrites, error>>
evalVars == <<dataloader, tie, pos, tmp_metrics, user_list, bundle_list,
              score_list, result, epc>>
vars == <<mainVars, evalVars>>

(***************************************************************************)
(* Bounds                                                                  *)
(***************************************************************************)
MaxLevel == 2      \* metric levels seen by the selector: 0..MaxLevel
Epochs == 3        \* conf["epochs"]
BatchCnt == 1      \* len(dataset.train_loader)
MaxConfigs == 2    \* largest grid explored
MaxBatches == 2    \* batches of an evaluation pass
NumItems == 3      \* columns (bundles) of a score matrix
ExportTopK == 2    \* the K of the export (100 at line 322), cut to the columns

Splits == {"val", "test"}
MetricNames == {"recall", "ndcg"}

(***************************************************************************)
(* Strings: str() of a number and "_".join                                 *)
(***************************************************************************)
Digit(d) ==
    CASE d = 0 -> "0" [] d = 1 -> "1" [] d = 2 -> "2" [] d = 3 -> "3"
      [] d = 4 -> "4" [] d = 5 -> "5" [] d = 6 -> "6" [] d = 7 -> "7"
      [] d = 8 -> "8" [] OTHER -> "9"

RECURSIVE Str(_)
Str(n) == IF n < 10 THEN Digit(n) ELSE Str(n \div 10) \o Digit(n % 10)

RECURSIVE Join(_, _)
Join(ss, sep) ==
    IF Len(ss) = 0 THEN ""
    ELSE IF Len(ss) = 1 THEN ss[1]
    ELSE ss[1] \o sep \o Join(Tail(ss), sep)

(***************************************************************************)
(* The configuration (config.yaml and the command line, lines 42-73)       *)
(***************************************************************************)
Topks == {1, 2}                       \* conf["topk"]
GridKeys == <<"lrs", "l2_regs", "item_level_ratios", "bundle_level_ratios",
              "bundle_agg_ratios", "embedding_sizes", "num_layerss",
              "c_lambdas", "c_temps">>

\* itertools.product(*ls): the last list varies fastest.
RECURSIVE Product(_)
Product(ls) ==
    IF Len(ls) = 0 THEN << <<>> >>
    ELSE LET rest == Product(Tail(ls))
             RECURSIVE Over(_)
             Over(vs) == IF Len(vs) = 0 THEN <<>>
                         ELSE [i \in 1..Len(rest) |-> <<vs[1]>> \o rest[i]]
                              \o Over(Tail(vs))
         IN Over(Head(ls))

Grid(c) == Product([i \in 1..Len(GridKeys) |-> c[GridKeys[i]]])

\* The loop variables of line 79, by name.
Hp(c, i) ==
    LET t == Grid(c)[i]
    IN [lr |-> t[1], l2_reg |-> t[2], item_level_ratio |-> t[3],
        bundle_level_ratio |-> t[4], bundle_agg_ratio |-> t[5],
        embedding_size |-> t[6], num_layers |-> t[7], c_lambda |-> t[8],
        c_temp |-> t[9]]

LrLists == {<<1>>, <<1, 2>>}
ItemRatioLists == {<<0>>, <<1>>, <<0, 1>>}
RatioLists == {<<0>>, <<1>>}

Confs ==
    { c \in [dataset : {"Youshu"}, model : {"BunCa", "CrossCBR"}, info : {""},
             gpu : {"0"}, device : {"cuda:0"},
             aug_type : {"ED", "OP"}, ed_interval : {1}, neg_num : {1},
             batch_size_train : {2048}, topk : {Topks}, topk_valid : Topks,
             test_interval : {2}, epochs : {Epochs},
             lrs : LrLists, l2_regs : {<<4>>},
             item_level_ratios : ItemRatioLists, bundle_level_ratios : RatioLists,
             bundle_agg_ratios : RatioLists, embedding_sizes : {<<64>>},
             num_layerss : {<<1>>}, c_lambdas : {<<4>>}, c_temps : {<<25>>}] :
        /\ Len(Grid(c)) <= MaxConfigs
        \* graph augmentation "ED" is run with nonzero bundle ratios
        /\ c.aug_type = "ED" =>
              c.bundle_level_ratios = <<1>> /\ c.bundle_agg_ratios = <<1>> }

\* Setting without the learning rate in it.
SettingNoLr(c, hp) ==
    Join(<<c.aug_type, Str(hp.l2_reg), Str(hp.embedding_size),
           Str(hp.item_level_ratio), Str(hp.bundle_level_ratio),
           Str(hp.bundle_agg_ratio), Str(hp.num_layers), Str(hp.c_lambda),
           Str(hp.c_temp)>>, "_")

\* Lines 99-122: the setting string of a grid tuple.
Setting(c, hp) ==
    Join((IF c.info # "" THEN <<c.info>> ELSE <<>>)
         \o <<c.aug_type>>
         \o (IF c.aug_type = "ED" THEN <<Str(c.ed_interval)>> ELSE <<>>)
         \o <<"Neg_" \o Str(c.neg_num), Str(c.batch_size_train), Str(hp.lr),
              Str(hp.l2_reg), Str(hp.embedding_size)>>
         \o <<Str(hp.item_level_ratio), Str(hp.bundle_level_ratio),
              Str(hp.bundle_agg_ratio), Str(hp.num_layers)>>
         \o <<Str(hp.c_lambda), Str(hp.c_temp)>>, "_")

\* Lines 83-86 and 123-126.
BasePath(root, c) == "./" \o root \o "/" \o c.dataset \o "/" \o c.model
LogPath(c, hp) == BasePath("log", c) \o "/" \o Setting(c, hp)
RunPath(c, hp) == BasePath("runs", c) \o "/" \o Setting(c, hp)
CheckpointModelPath(c, hp) == BasePath("checkpoints", c) \o "/model/" \o Setting(c, hp)
CheckpointConfPath(c, hp) == BasePath("checkpoints", c) \o "/conf/" \o Setting(c, hp)

\* Lines 274-283: the three files of the predictions export.
ExportParts == {"user_list", "bundle_list", "score_list"}
ExportPath(c, part) == BasePath("log", c) \o "/" \o part \o ".pt"

\* Line 107: the ratios an "OP" augmentation accepts.
RatiosAllowed(c, hp) ==
    c.aug_type = "OP" =>
        hp.item_level_ratio = 0 /\ hp.bundle_level_ratio = 0 /\ hp.bundle_agg_ratio = 0

\* Line 48.
ModelSupported(c) == c.model \in {"BunCa"}

(***************************************************************************)
(* The selector: init_best_metrics and log_metrics                         *)
(***************************************************************************)
\* Lines 187-197: every metric of every split at every K is 0.
InitBestMetrics(c) ==
    [s \in Splits |-> [m \in MetricNames |-> [k \in c.topk |-> 0]]]

\* Lines 198-200.
InitBestPerform == [s \in Splits |-> <<>>]

\* The snapshots an evaluation (lines 177-179) may return: both validation
\* metrics at the primary K take any level, the others are low or high.
Candidates(c) ==
    { [s \in Splits |-> [m \in MetricNames |-> [k \in c.topk |->
          IF s = "test" THEN t
          ELSE IF k # c.topk_valid THEN o
          ELSE IF m = "recall" THEN r ELSE n]]] :
      r \in 0..MaxLevel, n \in 0..MaxLevel,
      o \in {0, MaxLevel}, t \in {0, MaxLevel} }

\* Improved with "or" for "and".
ImprovedEither(c, cand, best) ==
    \/ cand["val"]["recall"][c.topk_valid] > best["val"]["recall"][c.topk_valid]
    \/ cand["val"]["ndcg"][c.topk_valid] > best["val"]["ndcg"][c.topk_valid]

\* Lines 240-241: the improvement rule.
Improved(c, cand, best) ==
    /\ cand["val"]["recall"][c.topk_valid] > best["val"]["recall"][c.topk_valid]
    /\ cand["val"]["ndcg"][c.topk_valid] > best["val"]["ndcg"][c.topk_valid]

\* UpdateBest copying the primary K alone.
UpdateBestPrimaryOnly(c, cand, best) ==
    [s \in DOMAIN best |-> [m \in DOMAIN best[s] |-> [k \in c.topk |->
        IF k = c.topk_valid THEN cand[s][m][k] ELSE best[s][m][k]]]]

\* Lines 256-259: the best snapshot after an improvement.
UpdateBest(c, cand, best) ==
    [s \in DOMAIN best |-> [m \in DOMAIN best[s] |-> [k \in c.topk |-> cand[s][m][k]]]]

\* Lines 261-264: the summary strings, by the values formatted into them.
BestPerform(c, ep, best) ==
    [s \in Splits |-> [k \in c.topk |->
        <<ep, k, best[s]["recall"][k], best[s]["ndcg"][k]>>]]

\* Lines 251-252: the dumped configuration.
DumpConf(c) == [k \in (DOMAIN c) \ {"device"} |-> c[k]]

\* Line 250: what torch.save(model.state_dict(), ...) stores.
StateDict(i, n) == [kind |-> "state_dict", cfg |-> i, steps |-> n]

\* p written by grid tuple i.
Wrote(w, p, i) ==
    IF p \in DOMAIN w THEN [w EXCEPT ![p] = @ \cup {i}] ELSE (p :> {i}) @@ w

RECURSIVE WroteAll(_, _, _)
WroteAll(w, ps, i) ==
    IF ps = {} THEN w
    ELSE LET p == CHOOSE q \in ps : TRUE IN WroteAll(Wrote(w, p, i), ps \ {p}, i)

Appended(l, p, n) ==
    IF p \in DOMAIN l THEN [l EXCEPT ![p] = @ + n] ELSE (p :> n) @@ l

(***************************************************************************)
(* main()                                                                  *)
(***************************************************************************)
NoMetrics == "none"
NoLists == "none"

\* The state test() and its helpers work on is not touched by main()'s model.
EvalIdle ==
    /\ dataloader = <<>> /\ tie = "low" /\ pos = 0 /\ tmp_metrics = <<>>
    /\ user_list = <<>> /\ bundle_list = <<>> /\ score_list = <<>>
    /\ result = "none" /\ epc = "idle"

Init ==
    /\ conf \in Confs
    /\ pc = "start" /\ cfg = 0 /\ epoch = 0 /\ batch_i = 0 /\ steps = 0
    /\ metrics = NoMetrics /\ lists = NoLists
    /\ best_metrics = InitBestMetrics(conf) /\ best_perform = InitBestPerform
    /\ best_epoch = 0
    /\ artifacts = <<>> /\ logs = <<>> /\ writers = <<>>
    /\ nWrites = [k \in {"model", "conf", "export"} |-> 0]
    /\ error = "none"
    /\ EvalIdle

\* Lines 42-77: the assertion on the model name comes before anything else.
Startup ==
    /\ pc = "start"
    /\ IF ModelSupported(conf)
       THEN pc' = "config" /\ cfg' = 1 /\ error' = error
       ELSE pc' = "error" /\ cfg' = cfg /\ error' = "AssertionError"
    /\ UNCHANGED <<conf, epoch, batch_i, steps, metrics, lists, best_metrics,
                   best_perform, best_epoch, artifacts, logs, writers, nWrites>>
    /\ UNCHANGED evalVars

\* Lines 83-146: one grid tuple's set-up, up to the first epoch. The snapshot
\* and lists of the previous tuple's last evaluation are dead from here on
\* (both are assigned again before they are read) and are cleared.
BeginConfig ==
    /\ pc = "config"
    /\ LET hp == Hp(conf, cfg) IN
       IF RatiosAllowed(conf, hp)
       THEN /\ conf' = hp @@ conf
            /\ logs' = Appended(logs, LogPath(conf, hp), 1)
            /\ writers' = WroteAll(writers, {LogPath(conf, hp), RunPath(conf, hp)}, cfg)
            /\ best_metrics' = InitBestMetrics(conf)
            /\ best_perform' = InitBestPerform
            /\ best_epoch' = 0
            /\ epoch' = 0 /\ batch_i' = 0
            /\ metrics' = NoMetrics /\ lists' = NoLists
            /\ pc' = "train"
            /\ error' = error
       ELSE /\ conf' = [l2_reg |-> hp.l2_reg, embedding_size |-> hp.embedding_size] @@ conf
            /\ pc' = "error" /\ error' = "AssertionError"
            /\ UNCHANGED <<logs, writers, best_metrics, best_perform, best_epoch,
                           epoch, batch_i, metrics, lists>>
    /\ UNCHANGED <<cfg, steps, artifacts, nWrites>>
    /\ UNCHANGED evalVars

\* Lines 152-174: one training batch: forward, backward, optimizer step.
TrainStep ==
    /\ pc = "train" /\ batch_i < BatchCnt
    /\ batch_i' = batch_i + 1
    /\ steps' = steps + 1
    /\ writers' = Wrote(writers, RunPath(conf, Hp(conf, cfg)), cfg)
    /\ UNCHANGED <<pc, conf, cfg, epoch, metrics, lists, best_metrics, best_perform,
                   best_epoch, artifacts, logs, nWrites, error>>
    /\ UNCHANGED evalVars

\* Lines 147 and 79: the next epoch, the next grid tuple, or the end.
Advance ==
    IF epoch + 1 < conf.epochs
    THEN pc' = "train" /\ epoch' = epoch + 1 /\ batch_i' = 0 /\ cfg' = cfg
    ELSE IF cfg < Len(Grid(conf))
    THEN pc' = "config" /\ cfg' = cfg + 1 /\ UNCHANGED <<epoch, batch_i>>
    ELSE pc' = "done" /\ UNCHANGED <<cfg, epoch, batch_i>>

\* Line 176, false: no evaluation after this epoch.
SkipEval ==
    /\ pc = "train" /\ batch_i = BatchCnt
    /\ epoch % conf.test_interval # 0
    /\ Advance
    /\ UNCHANGED <<conf, steps, metrics, lists, best_metrics, best_perform,
                   best_epoch, artifacts, logs, writers, nWrites, error>>
    /\ UNCHANGED evalVars

\* Lines 176-179: the validation pass and the test pass return a snapshot and
\* the lists of the test pass.
Evaluate ==
    /\ pc = "train" /\ batch_i = BatchCnt
    /\ epoch % conf.test_interval = 0
    /\ metrics' \in Candidates(conf)
    /\ lists' = [part \in ExportParts |->
                    [part |-> part, split |-> "test", cfg |-> cfg, epoch |-> epoch]]
    /\ pc' = "log"
    /\ UNCHANGED <<conf, cfg, epoch, batch_i, steps, best_metrics, best_perform,
                   best_epoch, artifacts, logs, writers, nWrites, error>>
    /\ UNCHANGED evalVars

\* Lines 180-184 and 231-272: log_metrics, then the loops go on.
LogMetrics ==
    /\ pc = "log"
    /\ LET hp == Hp(conf, cfg)
           lp == LogPath(conf, hp)
           exports == {ExportPath(conf, part) : part \in ExportParts}
           logged == Appended(logs, lp, 2 * Cardinality(conf.topk))
           seen == WroteAll(writers, {lp, RunPath(conf, hp)}, cfg)
       IN
       IF Improved(conf, metrics, best_metrics)
       THEN /\ artifacts' =
                   [p \in DOMAIN artifacts \cup exports
                          \cup {CheckpointModelPath(conf, hp), CheckpointConfPath(conf, hp)} |->
                      IF p = CheckpointModelPath(conf, hp) THEN StateDict(cfg, steps)
                      ELSE IF p = CheckpointConfPath(conf, hp) THEN DumpConf(conf)
                      ELSE IF p \in exports
                      THEN lists[CHOOSE part \in ExportParts : ExportPath(conf, part) = p]
                      ELSE artifacts[p]]
            /\ nWrites' = [k \in DOMAIN nWrites |-> nWrites[k] + 1]
            /\ writers' = WroteAll(seen, exports \cup {CheckpointModelPath(conf, hp),
                                                      CheckpointConfPath(conf, hp)}, cfg)
            /\ best_epoch' = epoch
            /\ best_metrics' = UpdateBest(conf, metrics, best_metrics)
            /\ best_perform' = BestPerform(conf, epoch, UpdateBest(conf, metrics, best_metrics))
            /\ logs' = Appended(logged, lp, 2 * Cardinality(conf.topk))
       ELSE /\ logs' = logged
            /\ writers' = seen
            /\ UNCHANGED <<artifacts, nWrites, best_epoch, best_metrics, best_perform>>
    /\ Advance
    /\ UNCHANGED <<conf, steps, metrics, lists, error>>
    /\ UNCHANGED evalVars

Next == Startup \/ BeginConfig \/ TrainStep \/ SkipEval \/ Evaluate \/ LogMetrics

Spec == Init /\ [][Next]_vars

(***************************************************************************)
(* Properties of main() and log_metrics(), checked under Spec              *)
(***************************************************************************)
\* What the claims call strict improvement of both validation metrics at the
\* primary K, written out on the state.
BothImprove ==
    /\ metrics["val"]["recall"][conf.topk_valid]
         > best_metrics["val"]["recall"][conf.topk_valid]
    /\ metrics["val"]["ndcg"][conf.topk_valid]
         > best_metrics["val"]["ndcg"][conf.topk_valid]

\* C1: log_metrics transitions (new best snapshot, new best epoch, a checkpoint
\* write and an export) exactly when the candidate's validation recall and
\* validation ndcg at conf["topk_valid"] are both strictly above the best's; in
\* every other case the best snapshot, best epoch, best-perform summaries,
\* checkpoint files and export files stay as they were.
C1_TransitionIffBothImprove ==
    [][pc = "log" =>
         /\ BothImprove =>
              /\ best_metrics' = metrics /\ best_epoch' = epoch
              /\ nWrites'["model"] = nWrites["model"] + 1
              /\ nWrites'["export"] = nWrites["export"] + 1
         /\ ~BothImprove =>
              UNCHANGED <<best_metrics, best_perform, best_epoch, artifacts, nWrites>>
      ]_vars

\* C1's case: against a nonzero best, a candidate that improved recall (and the
\* test split) but only equalled ndcg was handled, and nothing was written.
C1_Witness ==
    /\ pc \in {"config", "done"} /\ nWrites["model"] = 1
    /\ best_metrics["val"]["recall"][conf.topk_valid] = 1
    /\ metrics["val"]["recall"][conf.topk_valid] = 2
    /\ metrics["val"]["ndcg"][conf.topk_valid] = 1
    /\ best_metrics["val"]["ndcg"][conf.topk_valid] = 1
    /\ metrics["test"]["recall"][conf.topk_valid] > best_metrics["test"]["recall"][conf.topk_valid]
    /\ best_epoch = 0

\* C2: a log_metrics call whose candidate improves does one model-parameter
\* write, one configuration write (no device field) and one export (the lists
\* of the same test pass), and leaves the best snapshot equal to the candidate
\* at every K, metric and split, and the best epoch equal to the epoch.
C2_OneCheckpointOneExport ==
    [][pc = "log" /\ BothImprove =>
         LET hp == Hp(conf, cfg) IN
         /\ \A k \in DOMAIN nWrites : nWrites'[k] = nWrites[k] + 1
         /\ artifacts'[CheckpointModelPath(conf, hp)] = StateDict(cfg, steps)
         /\ "device" \notin DOMAIN artifacts'[CheckpointConfPath(conf, hp)]
         /\ \A f \in (DOMAIN conf) \ {"device"} :
                artifacts'[CheckpointConfPath(conf, hp)][f] = conf[f]
         /\ \A part \in ExportParts :
                artifacts'[ExportPath(conf, part)] =
                    [part |-> part, split |-> "test", cfg |-> cfg, epoch |-> epoch]
         /\ \A s \in Splits : \A m \in MetricNames : \A k \in conf.topk :
                best_metrics'[s][m][k] = metrics[s][m][k]
         /\ best_epoch' = epoch
      ]_vars

\* C2's case: the second improvement of a configuration has been handled.
C2_Witness ==
    /\ pc \in {"config", "done"} /\ nWrites["model"] >= 2
    /\ best_epoch = 2 /\ best_metrics = metrics
    /\ metrics["val"]["recall"][conf.topk_valid] = 2
    /\ \E k \in conf.topk : metrics["val"]["recall"][k] = 0

ExportPaths == {ExportPath(conf, part) : part \in ExportParts}

\* C8 as stated: the best snapshot is all-zero when a configuration starts,
\* and no path is written by two configurations of the grid.
C8_AllPathsDisjoint ==
    /\ pc = "train" /\ epoch = 0 /\ batch_i = 0 =>
          \A s \in Splits : \A m \in MetricNames : \A k \in conf.topk :
              best_metrics[s][m][k] = 0
    /\ \A p \in DOMAIN writers : Cardinality(writers[p]) <= 1

\* C8 as amended: the best snapshot is all-zero when a configuration starts,
\* and a path written by two configurations is one of the three export files.
C8_PathsDisjointButExport ==
    /\ pc = "train" /\ epoch = 0 /\ batch_i = 0 =>
          \A s \in Splits : \A m \in MetricNames : \A k \in conf.topk :
              best_metrics[s][m][k] = 0
    /\ \A p \in DOMAIN writers : Cardinality(writers[p]) > 1 => p \in ExportPaths

\* C8's case: the second configuration of a grid started from a zero best
\* after the first one had improved, and has written its own checkpoint.
C8_Witness ==
    /\ cfg = 2 /\ pc = "done"
    /\ Cardinality(DOMAIN artifacts) = 7
    /\ \E p \in DOMAIN writers : writers[p] = {1, 2}

\* C9: a configuration error is raised before any training step has run.
C9_FailsBeforeTraining == error # "none" => steps = 0

(***************************************************************************)
(* The evaluation pass: test(), get_metrics(), get_recall(), get_ndcg()    *)
(***************************************************************************)
Cols == 1..NumItems

\* Line 306: the offset subtracted from the score of a train-seen column.
Penalty == 100000000

\* Raw scores: two ordinary ones and one beyond the offset.
BigScore == 2 * Penalty
Scores == {0, 1, BigScore}

\* A user's row of a batch: the scorer's scores (line 305), the ground truth
\* and the train mask (line 302). A held-out positive is not a train-seen
\* column.
AllRows ==
    { row \in [pred : [Cols -> Scores], grd : [Cols -> {0, 1}], mask : [Cols -> {0, 1}]] :
        \A j \in Cols : row.grd[j] = 0 \/ row.mask[j] = 0 }

\* float32 keeps 24 significant bits: a value is rounded to the nearest
\* multiple of its unit in the last place, ties to even.
Ulp(a) ==
    IF a < 16777216 THEN 1 ELSE IF a < 33554432 THEN 2 ELSE IF a < 67108864 THEN 4
    ELSE IF a < 134217728 THEN 8 ELSE IF a < 268435456 THEN 16 ELSE 32

Float32(x) ==
    LET a == IF x < 0 THEN 0 - x ELSE x
        u == Ulp(a)
        q == a \div u
        r == a % u
        n == IF 2 * r < u THEN q
             ELSE IF 2 * r > u THEN q + 1
             ELSE IF q % 2 = 0 THEN q ELSE q + 1
    IN IF x < 0 THEN 0 - (n * u) ELSE n * u

\* MaskedPred leaving the scores as they are.
MaskedPredOff(row) == row.pred

\* Line 306: pred_b -= 1e8 * train_mask_u_b.
MaskedPred(row) == [j \in Cols |-> Float32(row.pred[j] - Penalty * row.mask[j])]

\* torch.topk: column i is selected before column j. Equal scores are ordered
\* as the build orders them: lowest index first, or highest index first.
Before(vals, i, j, t) ==
    \/ vals[i] > vals[j]
    \/ vals[i] = vals[j] /\ (IF t = "low" THEN i < j ELSE i > j)

RECURSIVE TopKFrom(_, _, _, _)
TopKFrom(vals, S, k, t) ==
    IF k = 0 THEN <<>>
    ELSE LET b == CHOOSE j \in S : \A i \in S \ {j} : Before(vals, j, i, t)
         IN <<b>> \o TopKFrom(vals, S \ {b}, k - 1, t)

\* Lines 351 and 322: the k columns of largest score, best first.
TopK(vals, k, t) == TopKFrom(vals, DOMAIN vals, k, t)

\* Line 322: the scores torch.topk returns with the columns.
TopKScores(vals, k, t) ==
    LET col == TopK(vals, k, t) IN [r \in 1..k |-> vals[col[r]]]

\* Lines 352-354: is_hit of one user.
IsHit(row, k, t) ==
    LET col_indice == TopK(MaskedPred(row), k, t)
    IN [r \in 1..k |-> row.grd[col_indice[r]]]

RECURSIVE SumSeq(_)
SumSeq(q) == IF Len(q) = 0 THEN 0 ELSE Head(q) + SumSeq(Tail(q))

\* Line 381: 1 / log2(rank + 1) for rank = 1, 2, ..., in thousandths.
Discount == <<1000, 631, 500, 431, 387, 356, 333, 315>>

\* 1.0 in the fixed point of the metric values.
One == Discount[1]

\* Lines 369-370 and 395: a user's number of positives.
NumPos(row) == SumSeq(row.grd)

\* RecallUser dividing by k, as a precision would.
RecallUserByK(row, k, t) == (SumSeq(IsHit(row, k, t)) * One) \div k

\* Line 374, per user: hit_cnt / (num_pos + epsilon). In float32 num_pos + 1e-8
\* is num_pos when num_pos >= 1; with num_pos = 0 the divisor is epsilon itself
\* (written 1 here) under a hit count of 0.
RecallUser(row, k, t) ==
    (SumSeq(IsHit(row, k, t)) * One) \div (IF NumPos(row) = 0 THEN 1 ELSE NumPos(row))

\* get_recall with every user of the batch in the denominator.
GetRecallAllUsers(batch, k, t) ==
    << SumSeq([u \in 1..Len(batch) |-> RecallUser(batch[u], k, t)]), Len(batch) >>

\* Lines 367-376: get_recall returns [nomina, denorm].
GetRecall(batch, k, t) ==
    << SumSeq([u \in 1..Len(batch) |-> RecallUser(batch[u], k, t)]),
       Len(batch) - Cardinality({u \in 1..Len(batch) : NumPos(batch[u]) = 0}) >>

\* Lines 380-382: DCG of a hit vector of length k.
DCG(hit, k) == SumSeq([r \in 1..k |-> hit[r] * Discount[r]])

\* Lines 384-387: IDCG of num_pos leading hits.
IDCG(num_pos, k) == DCG([r \in 1..k |-> IF r <= num_pos THEN 1 ELSE 0], k)

\* Lines 390-393: IDCGs[0] = 1, IDCGs[i] = IDCG(i, topk).
IDCGs(i, k) == IF i = 0 THEN One ELSE IDCG(i, k)

\* Line 395: clamp(0, topk).
Clamp(n, k) == IF n > k THEN k ELSE IF n < 0 THEN 0 ELSE n

\* NdcgUser normalised by the IDCG of k hits, whatever the user's positives.
NdcgUserFullIdcg(row, k, t) ==
    (DCG(IsHit(row, k, t), k) * One) \div IDCG(k, k)

\* Lines 395-399, per user: dcg / IDCGs[num_pos].
NdcgUser(row, k, t) ==
    (DCG(IsHit(row, k, t), k) * One) \div IDCGs(Clamp(NumPos(row), k), k)

\* Lines 379-404: get_ndcg returns [nomina, denorm].
GetNdcg(batch, k, t) ==
    << SumSeq([u \in 1..Len(batch) |-> NdcgUser(batch[u], k, t)]),
       Len(batch) - Cardinality({u \in 1..Len(batch) :
                                    Clamp(NumPos(batch[u]), k) = 0}) >>

\* Accumulate keeping the last batch's pair.
AccumulateLast(acc, tmp) == tmp

\* Lines 359-362: metrics[m][topk][i] += x.
Accumulate(acc, tmp) ==
    [m \in DOMAIN acc |-> [k \in DOMAIN acc[m] |->
        LET old == acc[m][k]
            res == tmp[m][k]
        IN << old[1] + res[1], old[2] + res[2] >>]]

\* Lines 348-364: get_metrics.
GetMetrics(acc, batch, t) ==
    Accumulate(acc, [m \in MetricNames |-> [k \in Topks |->
        IF m = "recall" THEN GetRecall(batch, k, t) ELSE GetNdcg(batch, k, t)]])

\* Lines 288-292.
InitTmpMetrics == [m \in MetricNames |-> [k \in Topks |-> <<0, 0>>]]

\* Lines 339-343: res[0] / res[1] for each metric and K.
FinalMetrics(acc) ==
    [m \in DOMAIN acc |-> [k \in DOMAIN acc[m] |->
        LET res == acc[m][k] IN res[1] \div res[2]]]

\* The users tensor of batch i: the ids of its rows.
Users(i, batch) == [u \in 1..Len(batch) |-> <<i, u>>]

\* The rows a several-batch pass is made of.
\* A user without positives.
RowZero ==
    [pred |-> [j \in Cols |-> 0], grd |-> [j \in Cols |-> 0], mask |-> [j \in Cols |-> 0]]

\* A user whose one positive is ranked first.
RowTop ==
    [pred |-> [j \in Cols |-> IF j = 1 THEN 1 ELSE 0],
     grd |-> [j \in Cols |-> IF j = 1 THEN 1 ELSE 0],
     mask |-> [j \in Cols |-> 0]]

\* A user whose one positive is tied with others behind a masked column.
RowLow ==
    [pred |-> [j \in Cols |-> IF j = 1 THEN 1 ELSE 0],
     grd |-> [j \in Cols |-> IF j = NumItems THEN 1 ELSE 0],
     mask |-> [j \in Cols |-> IF j = 1 THEN 1 ELSE 0]]

\* A user with two positives, one ranked first, one tied with the rest.
RowTwo ==
    [pred |-> [j \in Cols |-> IF j = 2 THEN 1 ELSE 0],
     grd |-> [j \in Cols |-> IF j <= 2 THEN 1 ELSE 0],
     mask |-> [j \in Cols |-> 0]]

\* The batches a several-batch pass is made of: each row alone, and pairs
\* with a zero-positive user in them.
LoaderBatches ==
    { <<RowZero>>, <<RowTop>>, <<RowLow>>, <<RowTwo>>,
      <<RowZero, RowTop>>, <<RowLow, RowZero>>, <<RowTwo, RowLow>>,
      <<RowZero, RowZero>> }

TieRules == {"low", "high"}

\* main() is not running while a pass is looked at on its own.
MainIdle ==
    /\ pc = "idle" /\ conf = <<>> /\ cfg = 0 /\ epoch = 0 /\ batch_i = 0 /\ steps = 0
    /\ metrics = NoMetrics /\ lists = NoLists /\ best_metrics = <<>>
    /\ best_perform = <<>> /\ best_epoch = 0 /\ artifacts = <<>> /\ logs = <<>>
    /\ writers = <<>> /\ nWrites = <<>> /\ error = "none"

\* Lines 288-300: the state of test() before its first batch.
EvalStart ==
    /\ tie \in TieRules
    /\ pos = 0 /\ tmp_metrics = InitTmpMetrics
    /\ user_list = <<>> /\ bundle_list = <<>> /\ score_list = <<>>
    /\ result = "none" /\ epc = "loop"

\* A pass over one to MaxBatches batches of the loader rows.
InitEval ==
    /\ MainIdle
    /\ dataloader \in UNION {[1..n -> LoaderBatches] : n \in 1..MaxBatches}
    /\ EvalStart

\* A pass over a single batch of a single user, any row.
InitRank ==
    /\ MainIdle
    /\ dataloader \in {<< <<row>> >> : row \in AllRows}
    /\ EvalStart

\* Lines 302-328: one iteration of the loop over the dataloader.
EvalBatch ==
    /\ epc = "loop" /\ pos < Len(dataloader)
    /\ LET batch == dataloader[pos + 1] IN
          /\ tmp_metrics' = GetMetrics(tmp_metrics, batch, tie)
          /\ user_list' = user_list \o Users(pos + 1, batch)
          /\ bundle_list' = bundle_list \o
                 [u \in 1..Len(batch) |-> TopK(MaskedPred(batch[u]), ExportTopK, tie)]
          /\ score_list' = score_list \o
                 [u \in 1..Len(batch) |-> TopKScores(MaskedPred(batch[u]), ExportTopK, tie)]
    /\ pos' = pos + 1
    /\ UNCHANGED <<dataloader, tie, result, epc>>
    /\ UNCHANGED mainVars

\* Lines 330-345: after the last batch, the divisions; a zero denominator
\* raises ZeroDivisionError.
Finish ==
    /\ epc = "loop" /\ pos = Len(dataloader)
    /\ IF \E m \in MetricNames : \E k \in Topks : tmp_metrics[m][k][2] = 0
       THEN epc' = "error" /\ result' = result
       ELSE epc' = "done" /\ result' = FinalMetrics(tmp_metrics)
    /\ UNCHANGED <<dataloader, tie, pos, tmp_metrics, user_list, bundle_list, score_list>>
    /\ UNCHANGED mainVars

EvalNext == EvalBatch \/ Finish

SpecEval == InitEval /\ [][EvalNext]_vars

SpecRank == InitRank /\ [][EvalNext]_vars

(***************************************************************************)
(* Properties of the evaluation pass, checked under SpecEval and SpecRank  *)
(***************************************************************************)
\* The rows of the batches iterated so far, in the order of user_list.
RECURSIVE RowsOf(_)
RowsOf(n) == IF n = 0 THEN <<>> ELSE RowsOf(n - 1) \o dataloader[n]

RowsSeen == RowsOf(pos)

Selected(row, k) == {TopK(MaskedPred(row), k, tie)[r] : r \in 1..k}

Unmasked(row) == {j \in Cols : row.mask[j] = 0}

\* The raw scores of a row differ by less than the offset of line 306.
SpreadBelowPenalty(row) ==
    \A i \in Cols : \A j \in Cols : row.pred[i] - row.pred[j] < Penalty

C5_RecallOneWhenKCoversPositives ==
    epc = "done" =>
        \A k \in Topks : k >= NumPos(dataloader[1][1]) => result["recall"][k] = One

\* C5 as amended: a single-user single-batch pass reports Recall@K = 1.0
\* exactly when every positive of the user is among the K selected columns.
C5_RecallOneIffPositivesSelected ==
    epc = "done" =>
        \A k \in Topks :
            result["recall"][k] = One <=>
                \A j \in Cols : dataloader[1][1].grd[j] = 1 =>
                                   j \in Selected(dataloader[1][1], k)

\* C5's case: a pass whose user has one positive, masked columns and K = 2
\* ended with Recall@2 = 1.0, and another K of the pass did not.
C5_Witness ==
    /\ epc = "done" /\ NumPos(dataloader[1][1]) = 1
    /\ Unmasked(dataloader[1][1]) # Cols
    /\ result["recall"][2] = One /\ result["recall"][1] # One

\* The columns of a row, best first.
Ranking(row) == TopK(MaskedPred(row), NumItems, tie)

\* C6 as stated: a user's NDCG@K is at most 1, and is 1 exactly when the
\* user's positives occupy the top num_positives ranks.
C6_NdcgOneIffPositivesLead ==
    pos = 1 /\ NumPos(dataloader[1][1]) >= 1 =>
        \A k \in Topks :
            /\ tmp_metrics["ndcg"][k][1] <= One
            /\ tmp_metrics["ndcg"][k][1] = One <=>
                   \A r \in 1..NumPos(dataloader[1][1]) :
                       dataloader[1][1].grd[Ranking(dataloader[1][1])[r]] = 1

\* C6 as amended: a user's NDCG@K is at most 1, and is 1 exactly when the
\* top min(num_positives, K) ranks are all positives.
C6_NdcgOneIffTopRanksHit ==
    pos = 1 /\ NumPos(dataloader[1][1]) >= 1 =>
        \A k \in Topks :
            /\ tmp_metrics["ndcg"][k][1] <= One
            /\ tmp_metrics["ndcg"][k][1] = One <=>
                   \A r \in 1..Clamp(NumPos(dataloader[1][1]), k) :
                       dataloader[1][1].grd[Ranking(dataloader[1][1])[r]] = 1

\* C6's case: a user with two positives, one ranked first and one ranked
\* last, has NDCG@1 = 1 and NDCG@2 below 1.
C6_Witness ==
    /\ pos = 1 /\ NumPos(dataloader[1][1]) = 2
    /\ dataloader[1][1].grd[Ranking(dataloader[1][1])[1]] = 1
    /\ dataloader[1][1].grd[Ranking(dataloader[1][1])[NumItems]] = 1
    /\ tmp_metrics["ndcg"][1][1] = One
    /\ tmp_metrics["ndcg"][2][1] < One /\ tmp_metrics["ndcg"][2][1] > 0

HasPositives(row) == NumPos(row) > 0

\* The accumulator after the first n batches, zero-positive users removed.
RECURSIVE AggregateWithoutZeroPos(_)
AggregateWithoutZeroPos(n) ==
    IF n = 0 THEN InitTmpMetrics
    ELSE GetMetrics(AggregateWithoutZeroPos(n - 1),
                    SelectSeq(dataloader[n], HasPositives), tie)

\* C4: a user without positives adds 0 to the numerator and 0 to the
\* denominator of recall and ndcg at every K: the accumulator is what it would
\* be with those users removed from their batches.
C4_ZeroPositiveUsersCountNothing ==
    /\ tmp_metrics = AggregateWithoutZeroPos(pos)
    /\ epc = "done" => result = FinalMetrics(AggregateWithoutZeroPos(pos))

\* C4's case: a finished pass with a batch mixing a zero-positive user with
\* another user, and a batch of zero-positive users only.
C4_Witness ==
    /\ epc = "done"
    /\ \E i \in 1..Len(dataloader) :
          /\ \E u \in 1..Len(dataloader[i]) : NumPos(dataloader[i][u]) = 0
          /\ \E u \in 1..Len(dataloader[i]) : NumPos(dataloader[i][u]) > 0
    /\ \E i \in 1..Len(dataloader) :
          \A u \in 1..Len(dataloader[i]) : NumPos(dataloader[i][u]) = 0

\* The accumulator after the batches taken in the order `order`.
RECURSIVE AggregateInOrder(_, _)
AggregateInOrder(order, n) ==
    IF n = 0 THEN InitTmpMetrics
    ELSE GetMetrics(AggregateInOrder(order, n - 1), dataloader[order[n]], tie)

Orders(n) == {f \in [1..n -> 1..n] : \A i \in 1..n : \E j \in 1..n : f[j] = i}

\* C7: the accumulated pairs and the final values of a pass are those of the
\* same batches aggregated in any other order.
C7_OrderIndependent ==
    pos = Len(dataloader) =>
        \A order \in Orders(Len(dataloader)) :
            LET permuted == AggregateInOrder(order, Len(dataloader)) IN
            /\ permuted = tmp_metrics
            /\ epc = "done" => FinalMetrics(permuted) = result

\* C7's case: a finished pass of several batches whose contributions differ.
C7_Witness ==
    /\ epc = "done" /\ Len(dataloader) >= 2
    /\ GetMetrics(InitTmpMetrics, dataloader[1], tie)
         # GetMetrics(InitTmpMetrics, dataloader[Len(dataloader)], tie)
    /\ result["recall"][1] > 0

\* C10: a pass over a non-empty sequence of batches never raises.
C10_PassNeverRaises == epc # "error"

====
